---- MODULE Spec2Model ----
(***************************************************************************)
(* A model of chat2plot: the conversation session and the query           *)
(* controller (chat2plot.py), the response extractor (parse_json) and the  *)
(* schema layer (schema.py: Filter, XAxis, YAxis, PlotConfig.from_json).   *)
(*                                                                         *)
(* Python text is a sequence of one-character strings, so that trimming,   *)
(* lower-casing and pattern matching are computed, not assumed.  A decoded *)
(* JSON value is a tagged record: JNull, JStr(s), JNum(n), JList(l),       *)
(* JObj(d) with d a function from key names to values.  A call that can    *)
(* raise returns Ok(value) or Err(exception class).                        *)
(***************************************************************************)
EXTENDS Integers, Sequences, FiniteSets, TLC

VARIABLES
    callers,       \* the threads that call query on the one session
    history,       \* ChatSession._conversation_history
    pc,            \* pc[c]: where caller c stands in Chat2Plot.query
    calls,         \* calls[c]: model calls issued by c's current query
    prompt,        \* prompt[c]: local `prompt` of ChatSession.query
    sent,          \* sent[c]: the message list handed to the chat model
    raw_response,  \* raw_response[c]: local of Chat2Plot.query
    outcome,       \* outcome[c]: the Plot returned to the caller, or NoPlot
    exc,           \* exc[c]: the exception that left query, or NoExc
    boundary,      \* boundary[c]: what the model boundary raised, or NoExc
    started,       \* queries started on the session so far
    f_in,          \* Filter.parse_from_llm: the input string and its parts
    f_out,         \* ... its result, and escaped() of it
    j_in,          \* PlotConfig.from_json / YAxis.parse_from_llm: the input
    j_out          \* ... the result

vars == <<callers, history, pc, calls, prompt, sent, raw_response, outcome,
          exc, boundary, started, f_in, f_out, j_in, j_out>>

sessionVars == <<callers, history, pc, calls, prompt, sent, raw_response,
                 outcome, exc, boundary, started>>

(***************************************************************************)
(* Bounds of the model.                                                    *)
(***************************************************************************)
MaxQueries == 2

MaxLhs == 4

MaxRhs == 2

(***************************************************************************)
(* Python values.                                                          *)
(***************************************************************************)
Ok(v) == [ok |-> TRUE, val |-> v]

Err(e) == [ok |-> FALSE, err |-> e]

JNull == [t |-> "null"]

JStr(s) == [t |-> "str", s |-> s]

JNum(n) == [t |-> "num", n |-> n]

JList(l) == [t |-> "list", l |-> l]

JObj(d) == [t |-> "obj", d |-> d]

\* bool(v): None, "", 0, [] and {} are false
Truthy(v) ==
    CASE v.t = "null" -> FALSE
      [] v.t = "str"  -> Len(v.s) > 0
      [] v.t = "num"  -> v.n # 0
      [] v.t = "list" -> Len(v.l) > 0
      [] v.t = "obj"  -> DOMAIN v.d # {}

\* d.get(k) on a dict d
Get(d, k) == IF k \in DOMAIN d THEN d[k] ELSE JNull

\* `v or None`
OrNone(v) == IF Truthy(v) THEN v ELSE JNull

(***************************************************************************)
(* Text.                                                                   *)
(***************************************************************************)
s_pie == <<"p", "i", "e">>

s_scatter == <<"s", "c", "a", "t", "t", "e", "r">>

s_line == <<"l", "i", "n", "e">>

s_bar == <<"b", "a", "r">>

s_area == <<"a", "r", "e", "a">>

s_scalar == <<"s", "c", "a", "l", "a", "r">>

s_horizontal_bar ==
    <<"h", "o", "r", "i", "z", "o", "n", "t", "a", "l", "-", "b", "a", "r">>

s_none == <<"n", "o", "n", "e">>

s_None == <<"N", "o", "n", "e">>

s_NONE == <<"N", "O", "N", "E">>

s_SUM == <<"S", "U", "M">>

s_AVG == <<"A", "V", "G">>

s_avg == <<"a", "v", "g">>

s_MIN == <<"M", "I", "N">>

s_MAX == <<"M", "A", "X">>

s_COUNT == <<"C", "O", "U", "N", "T">>

s_COUNTROWS == <<"C", "O", "U", "N", "T", "R", "O", "W", "S">>

s_DISTINCT_COUNT ==
    <<"D", "I", "S", "T", "I", "N", "C", "T", "_", "C", "O", "U", "N", "T">>

s_price == <<"p", "r", "i", "c", "e">>

s_category == <<"c", "a", "t", "e", "g", "o", "r", "y">>

s_year == <<"y", "e", "a", "r">>

s_month == <<"m", "o", "n", "t", "h">>

s_week == <<"w", "e", "e", "k">>

s_quarter == <<"q", "u", "a", "r", "t", "e", "r">>

s_day == <<"d", "a", "y">>

s_stacked == <<"s", "t", "a", "c", "k", "e", "d">>

s_group == <<"g", "r", "o", "u", "p">>

s_name == <<"n", "a", "m", "e">>

s_value == <<"v", "a", "l", "u", "e">>

s_asc == <<"a", "s", "c">>

s_desc == <<"d", "e", "s", "c">>

s_chart_type == <<"c", "h", "a", "r", "t", "_", "t", "y", "p", "e">>

s_y == <<"y">>

\* the upper-case letters that occur in the model's texts, with str.lower()
UpperToLower ==
    [c \in {"N", "O", "E", "S", "U", "M", "A", "V", "G", "I", "X", "C", "T",
            "R", "W", "D", "B", "P", "L"} |->
        CASE c = "N" -> "n" [] c = "O" -> "o" [] c = "E" -> "e"
          [] c = "S" -> "s" [] c = "U" -> "u" [] c = "M" -> "m"
          [] c = "A" -> "a" [] c = "V" -> "v" [] c = "G" -> "g"
          [] c = "I" -> "i" [] c = "X" -> "x" [] c = "C" -> "c"
          [] c = "T" -> "t" [] c = "R" -> "r" [] c = "W" -> "w"
          [] c = "D" -> "d" [] c = "B" -> "b" [] c = "P" -> "p"
          [] c = "L" -> "l"]

\* str.lower()
Lower(s) ==
    [i \in 1..Len(s) |->
        IF s[i] \in DOMAIN UpperToLower THEN UpperToLower[s[i]] ELSE s[i]]

\* `sub in s` for two texts
Contains(s, sub) ==
    \E i \in 1..(Len(s) - Len(sub) + 1) : SubSeq(s, i, i + Len(sub) - 1) = sub

(***************************************************************************)
(* schema.py: the enumerations, as sets of <<value, member>>.              *)
(***************************************************************************)
ChartType ==
    {<<s_pie, "PIE">>, <<s_scatter, "SCATTER">>, <<s_line, "LINE">>,
     <<s_bar, "BAR">>, <<s_area, "AREA">>, <<s_scalar, "SCALAR">>}

AggregationType ==
    {<<s_SUM, "SUM">>, <<s_AVG, "AVG">>, <<s_MIN, "MIN">>, <<s_MAX, "MAX">>,
     <<s_COUNT, "COUNT">>, <<s_COUNTROWS, "COUNTROWS">>,
     <<s_DISTINCT_COUNT, "DISTINCT_COUNT">>}

ResponseType == {"SUCCESS", "UNKNOWN", "FAILED_TO_RENDER"}

SortingCriteria == {<<s_name, "NAME">>, <<s_value, "VALUE">>}

SortOrder == {<<s_asc, "ASC">>, <<s_desc, "DESC">>}

TimeUnit ==
    {<<s_year, "YEAR">>, <<s_month, "MONTH">>, <<s_week, "WEEK">>,
     <<s_quarter, "QUARTER">>, <<s_day, "DAY">>}

BarMode == {<<s_stacked, "STACK">>, <<s_group, "GROUP">>}

\* E(value): the member with that value, or ValueError
EnumOf(E, v) ==
    IF v.t = "str" /\ \E p \in E : p[1] = v.s
    THEN Ok((CHOOSE p \in E : p[1] = v.s)[2])
    ELSE Err("ValueError")

\* `E(d[k]) if d.get(k) else None`
EnumOrNone(E, d, k) ==
    IF Truthy(Get(d, k)) THEN EnumOf(E, d[k]) ELSE Ok("None")

\* E.NAME: the member of that name, or AttributeError
EnumAttr(E, name) == IF name \in E THEN Ok(name) ELSE Err("AttributeError")

(***************************************************************************)
(* pydantic's validation of one field.                                     *)
(***************************************************************************)
\* a `str` field
ValidStr(v) == v.t = "str"

\* a `str | None` field
ValidOptStr(v) == v.t \in {"str", "null"}

\* a `float | None` or `int | None` field: a text that is no number, a list
\* and an object are refused
ValidOptNum(v) == v.t \in {"num", "null"}

(***************************************************************************)
(* chat2plot.py: the values the schema of _PROMPT lists.                   *)
(***************************************************************************)
\* "enum" of chart_type
prompt_chart_types ==
    {s_line, s_scatter, s_bar, s_pie, s_horizontal_bar, s_area}

\* "enum" of aggregation
prompt_aggregations ==
    {s_SUM, s_AVG, s_COUNT, s_MAX, s_MIN, s_DISTINCT_COUNT}

(***************************************************************************)
(* schema.py: XAxis.parse_from_llm.                                        *)
(***************************************************************************)
XAxis_parse_from_llm(jv) ==
    IF jv.t # "obj" THEN Err("AttributeError")   \* d.get on a non-dict
    ELSE
    LET d         == jv.d
        column    == OrNone(Get(d, "column"))
        min_value == Get(d, "min_value")
        max_value == Get(d, "max_value")
        label     == OrNone(Get(d, "label"))
        bin_size  == OrNone(Get(d, "bin_size"))
        time_unit == EnumOrNone(TimeUnit, d, "time_unit")
    IN  IF ~time_unit.ok THEN time_unit
        ELSE IF ~(/\ ValidStr(column)
                  /\ ValidOptNum(min_value)
                  /\ ValidOptNum(max_value)
                  /\ ValidOptStr(label)
                  /\ ValidOptNum(bin_size))
        THEN Err("ValidationError")
        ELSE Ok([column |-> column, bin_size |-> bin_size,
                 time_unit |-> time_unit.val, min_value |-> min_value,
                 max_value |-> max_value, label |-> label])

(***************************************************************************)
(* schema.py: YAxis.parse_from_llm.                                        *)
(***************************************************************************)
\* agg = d.get("aggregation"); if needs_aggregation and not agg: agg = "AVG"
YAxis_default_agg(d, needs_aggregation) ==
    IF needs_aggregation /\ ~Truthy(Get(d, "aggregation"))
    THEN JStr(s_AVG)
    ELSE Get(d, "aggregation")

\* mutant: the elif branch is lost, a supplied COUNTROWS stays
YAxis_countrows_agg_no_elif(d, agg, needs_aggregation) ==
    IF ~Truthy(Get(d, "column")) /\ needs_aggregation
    THEN JStr(s_COUNTROWS)
    ELSE agg

\* if not d.get("column") and needs_aggregation: agg = "COUNTROWS"
\* elif agg == "COUNTROWS": agg = "COUNT"
YAxis_countrows_agg(d, agg, needs_aggregation) ==
    IF ~Truthy(Get(d, "column")) /\ needs_aggregation
    THEN JStr(s_COUNTROWS)
    ELSE IF agg = JStr(s_COUNTROWS) THEN JStr(s_COUNT) ELSE agg

YAxis_parse_from_llm(jv, needs_aggregation) ==
    IF jv.t # "obj" THEN Err("AttributeError")   \* d.get on a non-dict
    ELSE
    LET d           == jv.d
        agg         == YAxis_countrows_agg(
                           d, YAxis_default_agg(d, needs_aggregation),
                           needs_aggregation)
        column      == IF Truthy(Get(d, "column")) THEN d["column"]
                       ELSE JStr(<<>>)
        aggregation == IF Truthy(agg) THEN EnumOf(AggregationType, agg)
                       ELSE Ok("None")
        min_value   == Get(d, "min_value")
        max_value   == Get(d, "max_value")
        label       == OrNone(Get(d, "label"))
    IN  IF ~aggregation.ok THEN aggregation
        ELSE IF ~(/\ ValidStr(column)
                  /\ ValidOptNum(min_value)
                  /\ ValidOptNum(max_value)
                  /\ ValidOptStr(label))
        THEN Err("ValidationError")
        ELSE Ok([column |-> column, aggregation |-> aggregation.val,
                 min_value |-> min_value, max_value |-> max_value,
                 label |-> label])

(***************************************************************************)
(* schema.py: PlotConfig.from_json.                                        *)
(***************************************************************************)
\* mutant: the two keys are looked at after the chart type has been coerced
from_json_asserts_after_chart_type(json_data) ==
    IF json_data.t # "obj" THEN Err("TypeError")
    ELSE IF "chart_type" \notin DOMAIN json_data.d THEN Err("KeyError")
    ELSE IF ~Truthy(json_data.d["chart_type"]) THEN
        IF "y" \in DOMAIN json_data.d THEN Ok(TRUE) ELSE Err("AssertionError")
    ELSE IF json_data.d["chart_type"].t # "str" THEN Err("AttributeError")
    ELSE IF /\ Lower(json_data.d["chart_type"].s) # s_none
            /\ ~EnumOf(ChartType, json_data.d["chart_type"]).ok
    THEN Err("ValueError")
    ELSE IF "y" \in DOMAIN json_data.d THEN Ok(TRUE) ELSE Err("AssertionError")

\* assert "chart_type" in json_data; assert "y" in json_data
\* (`in` on a list is membership, on a text it is substring search, on a
\* number or None it raises TypeError)
from_json_asserts(json_data) ==
    CASE json_data.t = "obj" ->
            IF {"chart_type", "y"} \subseteq DOMAIN json_data.d
            THEN Ok(TRUE) ELSE Err("AssertionError")
      [] json_data.t = "list" ->
            IF /\ \E i \in 1..Len(json_data.l) :
                      json_data.l[i] = JStr(s_chart_type)
               /\ \E i \in 1..Len(json_data.l) : json_data.l[i] = JStr(s_y)
            THEN Ok(TRUE) ELSE Err("AssertionError")
      [] json_data.t = "str" ->
            IF Contains(json_data.s, s_chart_type) /\ Contains(json_data.s, s_y)
            THEN Ok(TRUE) ELSE Err("AssertionError")
      [] OTHER -> Err("TypeError")

wrap_if_not_list(value) ==
    IF value.t # "list"
    THEN IF ~Truthy(value) THEN JList(<<>>) ELSE JList(<<value>>)
    ELSE value

\* mutant: "none" is compared without lower-casing the value
from_json_chart_type_case_sensitive(ct) ==
    IF ~Truthy(ct) THEN Ok("BAR")
    ELSE IF ct.t # "str" THEN Err("AttributeError")
    ELSE IF ct.s = s_none THEN Ok("BAR")
    ELSE EnumOf(ChartType, ct)

\* if not json_data["chart_type"] or json_data["chart_type"].lower() == "none"
from_json_chart_type(ct) ==
    IF ~Truthy(ct) THEN Ok("BAR")
    ELSE IF ct.t # "str" THEN Err("AttributeError")   \* .lower() of a non-str
    ELSE IF Lower(ct.s) = s_none THEN Ok("BAR")
    ELSE EnumOf(ChartType, ct)

\* mutant: only bar charts ask for an aggregation
from_json_needs_aggregation_bar_only(chart_type) == chart_type = "BAR"

\* needs_aggregation=chart_type != ChartType.SCATTER
from_json_needs_aggregation(chart_type) == chart_type # "SCATTER"

\* json_data = copy.deepcopy(json_data): the name is bound to a copy, so the
\* assignment of the pie fix-up does not reach the object the caller holds;
\* this is the caller's object after the call
from_json_caller_object(json_data) == json_data

\* mutant: the pie fix-up is lost
from_json_x_no_clone(d, chart_type) == Get(d, "x")

\* json_data["x"] after the pie fix-up, on the deep copy
from_json_x(d, chart_type) ==
    IF ~Truthy(Get(d, "x")) /\ chart_type = "PIE" THEN d["y"] ELSE Get(d, "x")

\* pydantic: filters is list[str]
ValidFilters(l) == \A i \in 1..Len(l.l) : ValidStr(l.l[i])

PlotConfig_from_json(json_data) ==
    IF ~from_json_asserts(json_data).ok THEN from_json_asserts(json_data)
    ELSE IF json_data.t # "obj" THEN Err("TypeError")   \* json_data["chart_type"]
    ELSE
    LET d          == json_data.d
        chart_type == from_json_chart_type(d["chart_type"])
    IN  IF ~chart_type.ok THEN chart_type
        ELSE
        LET xraw    == from_json_x(d, chart_type.val)
            x       == IF Truthy(xraw) THEN XAxis_parse_from_llm(xraw)
                       ELSE Ok(JNull)
            y       == YAxis_parse_from_llm(
                           d["y"], from_json_needs_aggregation(chart_type.val))
            filters == wrap_if_not_list(
                           IF "filters" \in DOMAIN d THEN d["filters"]
                           ELSE JList(<<>>))
            color   == OrNone(Get(d, "color"))
            bar_mode      == EnumOrNone(BarMode, d, "bar_mode")
            sort_criteria == EnumOrNone(SortingCriteria, d, "sort_criteria")
            sort_order    == EnumOrNone(SortOrder, d, "sort_order")
            horizontal    == Get(d, "horizontal")
            limit         == Get(d, "limit")
        IN  IF ~x.ok THEN x
            ELSE IF ~y.ok THEN y
            ELSE IF ~bar_mode.ok THEN bar_mode
            ELSE IF ~sort_criteria.ok THEN sort_criteria
            ELSE IF ~sort_order.ok THEN sort_order
            ELSE IF ~(/\ ValidFilters(filters)
                      /\ ValidOptStr(color)
                      /\ ValidOptNum(horizontal)
                      /\ ValidOptNum(limit))
            THEN Err("ValidationError")
            ELSE Ok([chart_type |-> chart_type.val,
                     x |-> IF x.val = JNull THEN JNull ELSE JObj(x.val),
                     y |-> y.val, filters |-> filters, color |-> color,
                     bar_mode |-> bar_mode.val,
                     sort_criteria |-> sort_criteria.val,
                     sort_order |-> sort_order.val,
                     horizontal |-> horizontal, limit |-> limit])

(***************************************************************************)
(* schema.py: Filter.                                                      *)
(***************************************************************************)
\* the backtick character (a string literal of the module cannot hold it)
Backtick == "BACKTICK"

Whitespace == {" ", "\n", "\t"}

RECURSIVE LStrip(_)
LStrip(s) ==
    IF Len(s) > 0 /\ s[1] \in Whitespace THEN LStrip(Tail(s)) ELSE s

RECURSIVE RStrip(_)
RStrip(s) ==
    IF Len(s) > 0 /\ s[Len(s)] \in Whitespace
    THEN RStrip(SubSeq(s, 1, Len(s) - 1))
    ELSE s

\* str.strip()
Strip(s) == RStrip(LStrip(s))

\* `.` of a pattern compiled without DOTALL matches all but a line break
Dots(s) == \A i \in 1..Len(s) : s[i] # "\n"

supported_operators ==
    << <<"=", "=">>, <<"!", "=">>, <<">", "=">>, <<"<", "=">>, <<">">>,
       <<"<">> >>

\* the places i where re.match can put op for the pattern of line 80 (any
\* characters greedily, op, any characters lazily, end): group 1 is all
\* before i; group 2 is all after op, up to the end of the text or to a line
\* break that ends it
MatchPlaces(op, f) ==
    {i \in 1..(Len(f) - Len(op) + 1) :
        /\ SubSeq(f, i, i + Len(op) - 1) = op
        /\ Dots(SubSeq(f, 1, i - 1))
        /\ LET rest == SubSeq(f, i + Len(op), Len(f))
           IN  \/ Dots(rest)
               \/ /\ Len(rest) > 0
                  /\ rest[Len(rest)] = "\n"
                  /\ Dots(SubSeq(rest, 1, Len(rest) - 1))}

\* the greedy group 1 takes the last such place
MatchPlace(op, f) ==
    CHOOSE i \in MatchPlaces(op, f) : \A k \in MatchPlaces(op, f) : k <= i

MatchGroup1(op, f) == SubSeq(f, 1, MatchPlace(op, f) - 1)

MatchGroup2(op, f) ==
    LET rest == SubSeq(f, MatchPlace(op, f) + Len(op), Len(f))
    IN  IF Dots(rest) THEN rest ELSE SubSeq(rest, 1, Len(rest) - 1)

\* if f[0] == "(" and f[-1] == ")": f = f[1:-1]
strip_parenthesis(f) ==
    IF f[1] = "(" /\ f[Len(f)] = ")" THEN SubSeq(f, 2, Len(f) - 1) ELSE f

\* for op in supported_operators: the first op, from index k on, that matches
RECURSIVE first_match(_, _)
first_match(f, k) ==
    IF k > Len(supported_operators) THEN Err("ValueError")
    ELSE IF MatchPlaces(supported_operators[k], f) # {}
    THEN Ok([lhs |-> Strip(MatchGroup1(supported_operators[k], f)),
             rhs |-> Strip(MatchGroup2(supported_operators[k], f)),
             op  |-> supported_operators[k]])
    ELSE first_match(f, k + 1)

Filter_parse_from_llm(f) ==
    IF Len(Strip(f)) = 0 THEN Err("IndexError")   \* f[0] of an empty text
    ELSE first_match(strip_parenthesis(Strip(f)), 1)

\* mutant: the name is always put between backticks
escaped_lhs_always(lhs) == <<Backtick>> \o lhs \o <<Backtick>>

\* self.lhs between two backticks unless self.lhs[0] is a backtick
escaped_lhs(lhs) ==
    IF lhs[1] # Backtick THEN <<Backtick>> \o lhs \o <<Backtick>> ELSE lhs

Filter_escaped(self) ==
    IF Len(self.lhs) = 0 THEN Err("IndexError")   \* self.lhs[0]
    ELSE Ok(escaped_lhs(self.lhs) \o <<" ">> \o self.op \o <<" ">> \o self.rhs)

(***************************************************************************)
(* The model's reply text, as a sequence of lexemes: a triple-backtick      *)
(* fence, the word json that follows a fence, a line break, prose (text    *)
(* that is no JSON), and a JSON document with the value it decodes to.     *)
(***************************************************************************)
Fence == [tok |-> "fence"]

LangJson == [tok |-> "json"]

NL == [tok |-> "nl"]

Prose(s) == [tok |-> "prose", s |-> s]

Doc(v) == [tok |-> "doc", v |-> v]

not_related == <<Prose("not related")>>

RECURSIVE LStripNL(_)
LStripNL(s) == IF Len(s) > 0 /\ s[1] = NL THEN LStripNL(Tail(s)) ELSE s

RECURSIVE RStripNL(_)
RStripNL(s) ==
    IF Len(s) > 0 /\ s[Len(s)] = NL
    THEN RStripNL(SubSeq(s, 1, Len(s) - 1))
    ELSE s

\* json.loads: one document, white space around it allowed
json_loads(content) ==
    LET body == RStripNL(LStripNL(content))
    IN  IF Len(body) = 1 /\ body[1].tok = "doc" THEN Ok(body[1].v)
        ELSE Err("JSONDecodeError")

\* "```json" in content
HasJsonFence(content) ==
    \E i \in 1..(Len(content) - 1) :
        content[i] = Fence /\ content[i + 1] = LangJson

\* where the opening delimiter of ptn can match: pairs <<first, last>> of the
\* positions it covers
Openings(content) ==
    IF HasJsonFence(content)
    THEN {<<i, i + 1>> : i \in {k \in 1..(Len(content) - 1) :
                                  content[k] = Fence /\ content[k + 1] = LangJson}}
    ELSE {<<i, i>> : i \in {k \in 1..Len(content) : content[k] = Fence}}

\* re.search(ptn, content, re.MULTILINE | re.DOTALL): the leftmost opening
\* that has a fence after it, and the greedy group up to the last fence
fence_search(content) ==
    LET ok == {o \in Openings(content) :
                  \E j \in (o[2] + 1)..Len(content) : content[j] = Fence}
    IN  IF ok = {} THEN Err("no match")
        ELSE LET o    == CHOOSE o \in ok : \A q \in ok : o[1] <= q[1]
                 last == CHOOSE j \in (o[2] + 1)..Len(content) :
                            /\ content[j] = Fence
                            /\ \A k \in (j + 1)..Len(content) : content[k] # Fence
             IN  Ok(SubSeq(content, o[2] + 1, last - 1))

parse_json(content) ==
    IF json_loads(content).ok THEN json_loads(content)
    ELSE IF fence_search(content).ok
         THEN json_loads(fence_search(content).val)
         ELSE json_loads(content)   \* raise: the first decode error again

(***************************************************************************)
(* chat2plot.py: Plot, Chat2Plot._parse_response, Chat2Plot.query.         *)
(***************************************************************************)
Plot(figure, config, response_type, raw) ==
    [figure |-> figure, config |-> config, response_type |-> response_type,
     raw_response |-> raw]

\* try: PlotConfig.from_json(parse_json(content))
parse_config(content) ==
    IF parse_json(content).ok THEN PlotConfig_from_json(parse_json(content).val)
    ELSE parse_json(content)

Chat2Plot_parse_response(content) ==
    IF content = not_related
    THEN IF EnumAttr(ResponseType, "NOT_RELATED").ok
         THEN Ok([response_type |-> "NOT_RELATED", config |-> JNull])
         ELSE EnumAttr(ResponseType, "NOT_RELATED")
    ELSE IF parse_config(content).ok
         THEN Ok([response_type |-> "SUCCESS",
                  config |-> parse_config(content).val])
         ELSE Ok([response_type |-> "UNKNOWN", config |-> JNull])

\* render.py: agg_method of groupby_agg, the pandas method of each kind
agg_method ==
    [AVG |-> "mean", SUM |-> "sum", COUNT |-> "count",
     DISTINCT_COUNT |-> "nunique", MIN |-> "min", MAX |-> "max"]

\* render.py: groupby_agg, up to agg_method[m.aggregation]
groupby_agg(config) ==
    IF config.y.aggregation = "None" THEN Err("AssertionError")
    ELSE IF config.y.aggregation \notin DOMAIN agg_method THEN Err("KeyError")
    ELSE Ok(agg_method[config.y.aggregation])

\* render.py: is_aggregation
is_aggregation(config) == config.y.aggregation # "None"

\* render.py: draw_plotly.  What filtering, transforming and plotting the
\* caller's data frame give (a figure, or an exception) is `drawn`; the
\* branch on the chart type, the assertions and the look-up of the
\* aggregation method are computed
draw_plotly(config, drawn) ==
    IF ~drawn.ok THEN drawn
    ELSE CASE config.chart_type \in {"BAR", "PIE"} ->
                IF groupby_agg(config).ok THEN drawn ELSE groupby_agg(config)
           [] config.chart_type = "SCATTER" ->
                IF config.x = JNull THEN Err("AssertionError") ELSE drawn
           [] config.chart_type \in {"LINE", "AREA"} ->
                IF is_aggregation(config)
                THEN IF groupby_agg(config).ok THEN drawn
                     ELSE groupby_agg(config)
                ELSE IF config.x = JNull THEN Err("AssertionError")
                     ELSE drawn
           [] OTHER -> Err("ValueError")   \* Unknown chart_type

\* mutant: the outcome of a failed rendering loses the parsed config
query_result_drops_config(raw, drawn) ==
    LET res == Chat2Plot_parse_response(raw)
    IN  IF ~res.ok THEN res
        ELSE IF res.val.response_type = "SUCCESS"
        THEN IF draw_plotly(res.val.config, drawn).ok
             THEN Ok(Plot(draw_plotly(res.val.config, drawn).val,
                          res.val.config, res.val.response_type, raw))
             ELSE Ok(Plot("None", JNull, "FAILED_TO_RENDER", raw))
        ELSE Ok(Plot("None", JNull, res.val.response_type, raw))

\* Chat2Plot.query from `res = self._parse_response(raw_response)` on
query_result(raw, drawn) ==
    LET res == Chat2Plot_parse_response(raw)
    IN  IF ~res.ok THEN res
        ELSE IF res.val.response_type = "SUCCESS"
        THEN IF draw_plotly(res.val.config, drawn).ok
             THEN Ok(Plot(draw_plotly(res.val.config, drawn).val,
                          res.val.config, res.val.response_type, raw))
             ELSE Ok(Plot("None", res.val.config, "FAILED_TO_RENDER", raw))
        ELSE Ok(Plot("None", JNull, res.val.response_type, raw))

(***************************************************************************)
(* chat2plot.py: Chat2Vega.query; render.py: draw_altair.                  *)
(***************************************************************************)
s_data == <<"d", "a", "t", "a">>

\* config = parse_json(res); if "data" in config: del config["data"]
\* (`in` raises TypeError on a number and on None; del raises it on a list
\* and on a text)
vega_config(res) ==
    IF ~parse_json(res).ok THEN parse_json(res)
    ELSE LET config == parse_json(res).val
         IN  CASE config.t = "obj" ->
                     Ok(JObj([k \in DOMAIN config.d \ {"data"} |-> config.d[k]]))
               [] config.t = "list" ->
                     IF \E i \in 1..Len(config.l) : config.l[i] = JStr(s_data)
                     THEN Err("TypeError") ELSE Ok(config)
               [] config.t = "str" ->
                     IF Contains(config.s, s_data)
                     THEN Err("TypeError") ELSE Ok(config)
               [] OTHER -> Err("TypeError")

\* draw_altair: spec["data"] = to_values(df) raises TypeError unless the
\* config is a dict; what altair gives for a dict is `drawn`
draw_altair(config, drawn) ==
    IF config.t # "obj" THEN Err("TypeError") ELSE drawn

\* Chat2Vega.query from `if res == "not related"` on
Chat2Vega_query_result(res, drawn) ==
    IF res = not_related
    THEN IF EnumAttr(ResponseType, "NOT_RELATED").ok
         THEN Ok(Plot("None", JNull, "NOT_RELATED", res))
         ELSE EnumAttr(ResponseType, "NOT_RELATED")
    ELSE IF ~vega_config(res).ok
    THEN Ok(Plot("None", JNull, "UNKNOWN", res))
    ELSE IF draw_altair(vega_config(res).val, drawn).ok
    THEN Ok(Plot(draw_altair(vega_config(res).val, drawn).val,
                 vega_config(res).val, "SUCCESS", res))
    ELSE Ok(Plot("None", vega_config(res).val, "FAILED_TO_RENDER", res))

(***************************************************************************)
(* The inputs the model draws.                                             *)
(***************************************************************************)
Absent == [t |-> "absent"]

\* the dict with the keys of record r whose value is not Absent
Dict(r) == [k \in {n \in DOMAIN r : r[n] # Absent} |-> r[k]]

YColumns == {Absent, JNull, JStr(<<>>), JStr(s_price)}

YAggregations ==
    {Absent, JNull, JStr(<<>>), JStr(s_SUM), JStr(s_AVG), JStr(s_avg),
     JStr(s_MIN), JStr(s_MAX), JStr(s_COUNT), JStr(s_COUNTROWS),
     JStr(s_DISTINCT_COUNT)}

YMinValues == {Absent, JNum(0), JStr(s_price)}

\* raw y objects
YInputs ==
    {JObj(Dict([column |-> c, aggregation |-> a, min_value |-> m])) :
        c \in YColumns, a \in YAggregations, m \in YMinValues}

XInputs ==
    {Absent, JNull, JObj(Dict([column |-> Absent])),
     JObj(Dict([column |-> JStr(s_category)])),
     JObj(Dict([column |-> Absent, bin_size |-> JNum(0)])),
     JObj(Dict([column |-> JStr(s_category), bin_size |-> JNum(0)])),
     JObj(Dict([column |-> JStr(s_category), bin_size |-> JNum(-1)])),
     JObj(Dict([column |-> JStr(s_category), bin_size |-> JNum(10)]))}

ChartTypeInputs ==
    {Absent, JNull, JNum(5), JStr(<<>>), JStr(s_none), JStr(s_None),
     JStr(s_NONE), JStr(s_pie), JStr(s_scatter), JStr(s_line), JStr(s_bar),
     JStr(s_area), JStr(s_scalar), JStr(s_horizontal_bar)}

\* decoded replies handed to PlotConfig.from_json
JsonInputs ==
    {JObj(Dict([chart_type |-> ct, x |-> x, y |-> y])) :
        ct \in ChartTypeInputs, x \in XInputs,
        y \in YInputs \cup {Absent, JStr(s_price)}}
    \cup {JNull, JNum(5), JList(<<>>), JList(<<JStr(s_chart_type), JStr(s_y)>>),
          JStr(s_chart_type), JStr(s_chart_type \o s_y)}

d_bar ==
    JObj([chart_type |-> JStr(s_bar),
          x |-> JObj([column |-> JStr(s_category)]),
          y |-> JObj([column |-> JStr(s_price), aggregation |-> JStr(s_AVG)])])

d_pie == JObj([chart_type |-> JStr(s_pie), y |-> JObj([column |-> JStr(s_price)])])

d_no_y == JObj([chart_type |-> JStr(s_bar)])

d_horizontal_bar ==
    JObj([chart_type |-> JStr(s_horizontal_bar),
          y |-> JObj([column |-> JStr(s_price)])])

\* "the number of rows per category": a y without a column
d_count_rows ==
    JObj([chart_type |-> JStr(s_bar),
          x |-> JObj([column |-> JStr(s_category)]),
          y |-> JObj(Dict([column |-> Absent]))])

\* a vega-lite specification with its data
d_vega ==
    JObj([mark |-> JStr(s_bar), data |-> JObj([url |-> JStr(s_data)])])

\* the reply texts of the chat model to a Chat2Vega session
VegaReplies ==
    {not_related,
     <<Prose("Here is the chart.")>>,
     <<Doc(d_vega)>>,
     <<Fence, NL, Doc(d_vega), NL, Fence>>,
     <<Doc(JList(<<>>))>>,
     <<Doc(JList(<<JStr(s_data)>>))>>,
     <<Doc(JStr(<<>>))>>,
     <<Doc(JStr(s_data))>>,
     <<Doc(JNull)>>,
     <<Doc(JNum(5))>>}

\* the reply texts of the chat model
Replies ==
    {not_related,
     <<Doc(d_count_rows)>>,
     <<Prose("not related"), NL>>,
     <<Prose("Here is the chart.")>>,
     <<Doc(d_bar)>>,
     <<Fence, LangJson, NL, Doc(d_bar), NL, Fence>>,
     <<Prose("Here is the chart."), NL, Fence, NL, Doc(d_pie), NL, Fence>>,
     <<Fence, LangJson, NL, Doc(d_bar)>>,
     <<Doc(d_no_y)>>,
     <<Doc(d_horizontal_bar)>>,
     <<Doc(JList(<<>>))>>,
     <<Doc(JNum(5))>>}

\* what the chat model raises when the call fails
ModelErrors == {"RateLimitError", "Timeout"}

\* the user's questions
Questions == {<<Prose("Average price per category")>>}

\* what plotting gives on the caller's data frame
Drawn == {Ok("Figure"), Err("ValueError")}

\* the texts of Filter.parse_from_llm: L, op, R, with or without parentheses
RECURSIVE Texts(_, _)
Texts(chars, n) ==
    IF n = 0 THEN {<<>>}
    ELSE Texts(chars, n - 1)
         \cup {Append(t, c) : t \in Texts(chars, n - 1), c \in chars}

LhsChars == {"a", " ", Backtick}

RhsChars == {"4", " "}

OpChars == {"=", "!", "<", ">"}

FilterInputs ==
    [L : Texts(LhsChars, MaxLhs), op : Texts(OpChars, 2),
     R : Texts(RhsChars, MaxRhs), paren : BOOLEAN]

FilterText(i) ==
    IF i.paren THEN <<"(">> \o i.L \o i.op \o i.R \o <<")">>
    ELSE i.L \o i.op \o i.R

(***************************************************************************)
(* chat2plot.py: ChatSession and Chat2Plot.query, one step per statement   *)
(* that touches the session or the chat model.                             *)
(***************************************************************************)
SystemMessage(content) == [role |-> "system", content |-> content]

HumanMessage(content) == [role |-> "user", content |-> content]

\* mutant: the reply is wrapped in the message class of the user
AIMessage_as_human(content) == [role |-> "user", content |-> content]

AIMessage(content) == [role |-> "assistant", content |-> content]

\* system_prompt_template.format(dataset=description(df))
system_prompt == <<Prose("_PROMPT"), Prose("description(df)")>>

\* "<{text}>".format(text=q)
user_prompt(q) == <<Prose("<")>> \o q \o <<Prose(">")>>

NoPlot == [none |-> TRUE]

NoExc == "None"

NotRun == [run |-> FALSE]

\* ChatSession.__init__
SessionInit(cs) ==
    /\ callers = cs
    /\ history = <<SystemMessage(system_prompt)>>
    /\ pc = [c \in cs |-> "idle"]
    /\ calls = [c \in cs |-> 0]
    /\ prompt = [c \in cs |-> <<>>]
    /\ sent = [c \in cs |-> <<>>]
    /\ raw_response = [c \in cs |-> <<>>]
    /\ outcome = [c \in cs |-> NoPlot]
    /\ exc = [c \in cs |-> NoExc]
    /\ boundary = [c \in cs |-> NoExc]
    /\ started = 0

\* mutant: the earlier turns are dropped when a query starts
QueryStartPrune(c) ==
    \E q \in Questions :
        /\ pc[c] \in {"idle", "done", "raised"}
        /\ started < MaxQueries
        /\ started' = started + 1
        /\ prompt' = [prompt EXCEPT ![c] = user_prompt(q)]
        /\ history' = <<history[1], HumanMessage(user_prompt(q))>>
        /\ pc' = [pc EXCEPT ![c] = "appended"]
        /\ calls' = [calls EXCEPT ![c] = 0]
        /\ sent' = [sent EXCEPT ![c] = <<>>]
        /\ raw_response' = [raw_response EXCEPT ![c] = <<>>]
        /\ outcome' = [outcome EXCEPT ![c] = NoPlot]
        /\ exc' = [exc EXCEPT ![c] = NoExc]
        /\ boundary' = [boundary EXCEPT ![c] = NoExc]
        /\ UNCHANGED <<callers, f_in, f_out, j_in, j_out>>

\* Chat2Plot.query is entered; ChatSession.query formats the prompt and
\* _query appends it
QueryStart(c) ==
    \E q \in Questions :
        /\ pc[c] \in {"idle", "done", "raised"}
        /\ started < MaxQueries
        /\ started' = started + 1
        /\ prompt' = [prompt EXCEPT ![c] = user_prompt(q)]
        /\ history' = Append(history, HumanMessage(user_prompt(q)))
        /\ pc' = [pc EXCEPT ![c] = "appended"]
        /\ calls' = [calls EXCEPT ![c] = 0]
        /\ sent' = [sent EXCEPT ![c] = <<>>]
        /\ raw_response' = [raw_response EXCEPT ![c] = <<>>]
        /\ outcome' = [outcome EXCEPT ![c] = NoPlot]
        /\ exc' = [exc EXCEPT ![c] = NoExc]
        /\ boundary' = [boundary EXCEPT ![c] = NoExc]
        /\ UNCHANGED <<callers, f_in, f_out, j_in, j_out>>

\* _query: self._chat(self._conversation_history) is called
CallModel(c) ==
    /\ pc[c] = "appended"
    /\ sent' = [sent EXCEPT ![c] = history]
    /\ calls' = [calls EXCEPT ![c] = calls[c] + 1]
    /\ pc' = [pc EXCEPT ![c] = "awaiting"]
    /\ UNCHANGED <<callers, history, prompt, raw_response, outcome, exc,
                   boundary, started, f_in, f_out, j_in, j_out>>

\* mutant: a reply that does not parse makes query ask again, in a loop
ModelReturnsRetry(c) ==
    \E reply \in Replies, drawn \in Drawn :
        /\ pc[c] = "awaiting"
        /\ raw_response' = [raw_response EXCEPT ![c] = reply]
        /\ IF ~query_result(reply, drawn).ok
           THEN /\ exc' = [exc EXCEPT ![c] = query_result(reply, drawn).err]
                /\ pc' = [pc EXCEPT ![c] = "raised"]
                /\ history' = Append(history, AIMessage(reply))
                /\ outcome' = outcome
           ELSE IF query_result(reply, drawn).val.response_type = "UNKNOWN"
           THEN /\ history' = Append(Append(history, AIMessage(reply)),
                                     HumanMessage(prompt[c]))
                /\ pc' = [pc EXCEPT ![c] = "appended"]
                /\ UNCHANGED <<outcome, exc>>
           ELSE /\ outcome' = [outcome EXCEPT
                                  ![c] = query_result(reply, drawn).val]
                /\ pc' = [pc EXCEPT ![c] = "done"]
                /\ history' = Append(history, AIMessage(reply))
                /\ exc' = exc
        /\ UNCHANGED <<callers, calls, prompt, sent, boundary, started,
                       f_in, f_out, j_in, j_out>>

\* the chat model returns: _query appends the reply, and Chat2Plot.query
\* parses it, renders and returns (or an exception leaves it)
ModelReturns(c) ==
    \E reply \in Replies, drawn \in Drawn :
        /\ pc[c] = "awaiting"
        /\ history' = Append(history, AIMessage(reply))
        /\ raw_response' = [raw_response EXCEPT ![c] = reply]
        /\ IF query_result(reply, drawn).ok
           THEN /\ outcome' = [outcome EXCEPT
                                  ![c] = query_result(reply, drawn).val]
                /\ pc' = [pc EXCEPT ![c] = "done"]
                /\ exc' = exc
           ELSE /\ exc' = [exc EXCEPT ![c] = query_result(reply, drawn).err]
                /\ pc' = [pc EXCEPT ![c] = "raised"]
                /\ outcome' = outcome
        /\ UNCHANGED <<callers, calls, prompt, sent, boundary, started,
                       f_in, f_out, j_in, j_out>>

\* mutant: query catches the failure of the chat model and returns a Plot
ModelRaisesCaught(c) ==
    \E e \in ModelErrors :
        /\ pc[c] = "awaiting"
        /\ boundary' = [boundary EXCEPT ![c] = e]
        /\ outcome' = [outcome EXCEPT
                          ![c] = Plot("None", JNull, "UNKNOWN", <<>>)]
        /\ pc' = [pc EXCEPT ![c] = "done"]
        /\ UNCHANGED <<callers, history, calls, prompt, sent, raw_response,
                       exc, started, f_in, f_out, j_in, j_out>>

\* the chat model raises: nothing in _query, ChatSession.query or
\* Chat2Plot.query handles it
ModelRaises(c) ==
    \E e \in ModelErrors :
        /\ pc[c] = "awaiting"
        /\ boundary' = [boundary EXCEPT ![c] = e]
        /\ exc' = [exc EXCEPT ![c] = e]
        /\ pc' = [pc EXCEPT ![c] = "raised"]
        /\ UNCHANGED <<callers, history, calls, prompt, sent, raw_response,
                       outcome, started, f_in, f_out, j_in, j_out>>

Init ==
    /\ SessionInit({1})
    /\ f_in = NotRun /\ f_out = NotRun /\ j_in = NotRun /\ j_out = NotRun

Next ==
    \/ \E c \in callers : QueryStart(c)
    \/ \E c \in callers : CallModel(c)
    \/ \E c \in callers : ModelReturns(c)
    \/ \E c \in callers : ModelRaises(c)

Spec == Init /\ [][Next]_vars

\* system_prompt_template.format(dataset=description(df)) of Chat2Vega
system_prompt_vega == <<Prose("_PROMPT_VEGA"), Prose("description(df)")>>

\* the chat model returns to a Chat2Vega session: _query appends the reply,
\* and Chat2Vega.query parses it, renders and returns (or an exception
\* leaves it)
VegaModelReturns(c) ==
    \E reply \in VegaReplies, drawn \in Drawn :
        /\ pc[c] = "awaiting"
        /\ history' = Append(history, AIMessage(reply))
        /\ raw_response' = [raw_response EXCEPT ![c] = reply]
        /\ IF Chat2Vega_query_result(reply, drawn).ok
           THEN /\ outcome' = [outcome EXCEPT
                                  ![c] = Chat2Vega_query_result(reply, drawn).val]
                /\ pc' = [pc EXCEPT ![c] = "done"]
                /\ exc' = exc
           ELSE /\ exc' = [exc EXCEPT
                              ![c] = Chat2Vega_query_result(reply, drawn).err]
                /\ pc' = [pc EXCEPT ![c] = "raised"]
                /\ outcome' = outcome
        /\ UNCHANGED <<callers, calls, prompt, sent, boundary, started,
                       f_in, f_out, j_in, j_out>>

\* the session is the one of a Chat2Plot or of a Chat2Vega
IsChat2Plot == history[1] = SystemMessage(system_prompt)

IsChat2Vega == history[1] = SystemMessage(system_prompt_vega)

\* chat2plot(df, model_type): a Chat2Plot or a Chat2Vega, with its session
InitPlots ==
    /\ callers = {1}
    /\ history \in {<<SystemMessage(system_prompt)>>,
                    <<SystemMessage(system_prompt_vega)>>}
    /\ pc = [c \in callers |-> "idle"]
    /\ calls = [c \in callers |-> 0]
    /\ prompt = [c \in callers |-> <<>>]
    /\ sent = [c \in callers |-> <<>>]
    /\ raw_response = [c \in callers |-> <<>>]
    /\ outcome = [c \in callers |-> NoPlot]
    /\ exc = [c \in callers |-> NoExc]
    /\ boundary = [c \in callers |-> NoExc]
    /\ started = 0
    /\ f_in = NotRun /\ f_out = NotRun /\ j_in = NotRun /\ j_out = NotRun

NextPlots ==
    \/ \E c \in callers : QueryStart(c)
    \/ \E c \in callers : CallModel(c)
    \/ \E c \in callers : IsChat2Plot /\ ModelReturns(c)
    \/ \E c \in callers : IsChat2Vega /\ VegaModelReturns(c)
    \/ \E c \in callers : ModelRaises(c)

SpecPlots == InitPlots /\ [][NextPlots]_vars

\* two threads call query on the one session: the steps of _query (append
\* the prompt, call the chat model, append the reply) of the two interleave
InitConcurrent ==
    /\ SessionInit({1, 2})
    /\ f_in = NotRun /\ f_out = NotRun /\ j_in = NotRun /\ j_out = NotRun

SpecConcurrent == InitConcurrent /\ [][Next]_vars

(***************************************************************************)
(* Filter.parse_from_llm and Filter.escaped on every input text.           *)
(***************************************************************************)
FilterParse ==
    /\ f_out = NotRun
    /\ f_out' = [parsed |-> Filter_parse_from_llm(FilterText(f_in)),
                 escaped |-> NotRun]
    /\ UNCHANGED <<sessionVars, f_in, j_in, j_out>>

FilterEscaped ==
    /\ f_out # NotRun
    /\ f_out.parsed.ok
    /\ f_out.escaped = NotRun
    /\ f_out' = [f_out EXCEPT !.escaped = Filter_escaped(f_out.parsed.val)]
    /\ UNCHANGED <<sessionVars, f_in, j_in, j_out>>

InitFilter ==
    /\ SessionInit({})
    /\ f_in \in FilterInputs
    /\ f_out = NotRun /\ j_in = NotRun /\ j_out = NotRun

NextFilter == FilterParse \/ FilterEscaped

SpecFilter == InitFilter /\ [][NextFilter]_vars

(***************************************************************************)
(* PlotConfig.from_json and YAxis.parse_from_llm on every input.           *)
(***************************************************************************)
FromJson ==
    /\ j_in.call = "from_json"
    /\ j_out = NotRun
    /\ j_out' = PlotConfig_from_json(j_in.json_data)
    /\ j_in' = [j_in EXCEPT
                   !.json_data = from_json_caller_object(j_in.json_data)]
    /\ UNCHANGED <<sessionVars, f_in, f_out>>

YAxisParse ==
    /\ j_in.call = "YAxis.parse_from_llm"
    /\ j_out = NotRun
    /\ j_out' = YAxis_parse_from_llm(j_in.d, j_in.needs_aggregation)
    /\ UNCHANGED <<sessionVars, f_in, f_out, j_in>>

InitSchema ==
    /\ SessionInit({})
    /\ f_in = NotRun /\ f_out = NotRun
    /\ j_in \in {[call |-> "from_json", json_data |-> j] : j \in JsonInputs}
           \cup {[call |-> "YAxis.parse_from_llm", d |-> d,
                  needs_aggregation |-> n] : d \in YInputs, n \in BOOLEAN}
    /\ j_out = NotRun

NextSchema == FromJson \/ YAxisParse

SpecSchema == InitSchema /\ [][NextSchema]_vars

(***************************************************************************)
(* The claims about the session and the query controller (Spec).           *)
(***************************************************************************)
\* where the prompt of c's current query stands in the history
QueryPromptIndex(c) ==
    CHOOSE i \in 1..Len(history) :
        /\ history[i] = HumanMessage(prompt[c])
        /\ \A k \in (i + 1)..Len(history) : history[k] # HumanMessage(prompt[c])

\* the model's replies in c's current query, in order
QueryReplies(c) ==
    LET after == SubSeq(history, QueryPromptIndex(c) + 1, Len(history))
    IN  SelectSeq(after, LAMBDA m : m.role = "assistant")

\* the reply text fails extraction, assembly or validation
FailsValidation(content) == content # not_related /\ ~parse_config(content).ok

\* C1: whenever the first model reply of a query fails extraction, assembly
\* or validation, the controller issues exactly one correction round-trip:
\* the query returns only after a second model call, whose prompt embeds the
\* error, and the corrected reply is validated once more.
C1_OneCorrectionRoundTrip ==
    \A c \in callers :
        (/\ pc[c] = "done"
         /\ FailsValidation(QueryReplies(c)[1].content))
        => /\ calls[c] = 2
           /\ Len(QueryReplies(c)) = 2

\* C2: every query ends after at least one and at most two model calls,
\* whatever the model replies: no third call is made for the same query.
C2_AtMostTwoModelCalls ==
    \A c \in callers :
        /\ calls[c] <= 2
        /\ pc[c] \in {"done", "raised"} => calls[c] >= 1

\* C2 witness: a query has returned for a reply that did not parse
C2_Witness ==
    \E c \in callers :
        /\ pc[c] = "done"
        /\ calls[c] = 1
        /\ FailsValidation(raw_response[c])

\* C3: when every reply of a query fails parsing or validation (the first and
\* the corrected one), the query returns a structured outcome of response
\* type FailedToRender, not Unknown, which carries the conversation history.
C3_FailedTwiceIsFailedToRender ==
    \A c \in callers :
        (/\ pc[c] = "done"
         /\ \A i \in 1..Len(QueryReplies(c)) :
                FailsValidation(QueryReplies(c)[i].content))
        => /\ outcome[c].response_type = "FAILED_TO_RENDER"
           /\ "history" \in DOMAIN outcome[c]

\* C4: whatever text the model replies, query raises no failure of its own to
\* the caller: only a failure of the model call itself leaves query as an
\* exception; every reply, "not related" and a JSON text that is no object
\* included, ends in a returned Plot.
C4_NoParseFailureRaised ==
    \A c \in callers : pc[c] = "raised" => boundary[c] # NoExc

\* C5: a failure raised by the model boundary leaves query unmodified, is not
\* turned into a Plot, and no further model call is made for that query.
C5_BoundaryFailurePropagates ==
    \A c \in callers :
        boundary[c] # NoExc
        => /\ pc[c] = "raised"
           /\ exc[c] = boundary[c]
           /\ outcome[c] = NoPlot
           /\ calls[c] = 1

\* C5 witness: the model call of a query has raised a rate-limit failure
C5_Witness ==
    \E c \in callers : boundary[c] = "RateLimitError" /\ pc[c] = "raised"

\* C6: the history starts with one system message and never holds another;
\* every step leaves the earlier history as a prefix of the later one; a
\* query's start appends its user prompt, and each completed model call
\* appends the assistant reply right after that prompt, whether the reply
\* parses or not.
C6_HistoryAppendOnly ==
    /\ [](/\ Len(history) >= 1
          /\ history[1] = SystemMessage(system_prompt)
          /\ \A i \in 2..Len(history) : history[i].role # "system")
    /\ [][/\ Len(history') >= Len(history)
          /\ SubSeq(history', 1, Len(history)) = history
          /\ \A c \in callers :
                /\ (pc[c] # "appended" /\ pc'[c] = "appended")
                   => history' = Append(history, HumanMessage(prompt'[c]))
                /\ (pc[c] = "awaiting" /\ pc'[c] # "awaiting"
                        /\ boundary'[c] = NoExc)
                   => /\ history[Len(history)] = HumanMessage(prompt[c])
                      /\ history' = Append(history, AIMessage(raw_response'[c]))
                      /\ Len(history') = Len(sent[c]) + 1]_vars

\* C6 witness: two calls have completed, the first with a reply that does not
\* parse and the second with one that does
C6_Witness ==
    /\ Len(history) = 5
    /\ history[3].role = "assistant"
    /\ FailsValidation(history[3].content)
    /\ history[5].role = "assistant"
    /\ parse_config(history[5].content).ok

\* C7: when the reply is exactly "not related", the query returns a
\* NotRelated outcome with no figure and no config and with the reply text
\* kept, after the one model call and without a correction round-trip.
C7_NotRelatedOutcome ==
    \A c \in callers :
        raw_response[c] = not_related
        => /\ pc[c] = "done"
           /\ outcome[c] # NoPlot
           /\ outcome[c].response_type = "NOT_RELATED"
           /\ outcome[c].figure = "None"
           /\ outcome[c].config = JNull
           /\ outcome[c].raw_response = not_related
           /\ calls[c] = 1

(***************************************************************************)
(* The claim about Filter (SpecFilter).                                    *)
(***************************************************************************)
SupportedOperators ==
    {<<"=", "=">>, <<"!", "=">>, <<">", "=">>, <<"<", "=">>, <<">">>, <<"<">>}

\* a name with no backtick in it
PlainName(n) == Len(n) > 0 /\ \A k \in 1..Len(n) : n[k] # Backtick

\* a name between two backticks
QuotedName(n) == Len(n) >= 2 /\ n[1] = Backtick /\ n[Len(n)] = Backtick

\* C8: for every filter text L op R with one supported operator op, where L
\* and R hold no operator character and no parenthesis, L holds a name (plain
\* or already between backticks) and the text may stand in one pair of
\* parentheses, parse_from_llm returns op, the trimmed L and the trimmed R,
\* and escaped() gives the name between backticks exactly once (a name
\* already between backticks as it is), a space, op, a space and the literal.
C8_FilterRoundTrip ==
    (/\ f_out # NotRun
     /\ f_in.op \in SupportedOperators
     /\ PlainName(Strip(f_in.L)) \/ QuotedName(Strip(f_in.L)))
    => /\ f_out.parsed = Ok([lhs |-> Strip(f_in.L), rhs |-> Strip(f_in.R),
                             op |-> f_in.op])
       /\ f_out.escaped # NotRun
          => f_out.escaped =
                Ok((IF QuotedName(Strip(f_in.L)) THEN Strip(f_in.L)
                    ELSE <<Backtick>> \o Strip(f_in.L) \o <<Backtick>>)
                   \o <<" ">> \o f_in.op \o <<" ">> \o Strip(f_in.R))

\* C8 witness: a name with a space in it has been parsed and escaped, the
\* text standing in parentheses
C8_Witness ==
    /\ f_in.L = <<"a", " ", "a", " ">>
    /\ f_in.paren
    /\ f_in.op = <<"<">>
    /\ f_in.R = <<" ", "4">>
    /\ f_out # NotRun
    /\ f_out.escaped # NotRun

(***************************************************************************)
(* The claims about the Y axis (SpecSchema).                               *)
(***************************************************************************)
\* the raw object has a column that is a text with something in it
HasColumn(d) == "column" \in DOMAIN d /\ d["column"].t = "str" /\ Truthy(d["column"])

\* the raw object's column is absent, null or empty
NoColumn(d) == "column" \notin DOMAIN d \/ d["column"] \in {JNull, JStr(<<>>)}

\* the raw object's aggregation is absent, null or empty
NoAggregation(d) ==
    "aggregation" \notin DOMAIN d \/ d["aggregation"] \in {JNull, JStr(<<>>)}

\* the raw object's other fields are of their declared types
OtherFieldsValid(d) ==
    /\ ValidOptNum(Get(d, "min_value"))
    /\ ValidOptNum(Get(d, "max_value"))
    /\ ValidOptStr(Get(d, "label"))

\* C9: for every raw Y object with a column and no aggregation (absent, null
\* or empty), parse_from_llm with needs_aggregation true gives a field whose
\* aggregation is AVG; and from_json asks for an aggregation for every chart
\* type but scatter: the config it builds from such a y has AVG unless its
\* chart type is scatter, and then it has none.
C9_DefaultAggregationIsAvg ==
    /\ (/\ j_out # NotRun
        /\ j_in.call = "YAxis.parse_from_llm"
        /\ j_in.needs_aggregation
        /\ HasColumn(j_in.d.d) /\ NoAggregation(j_in.d.d)
        /\ OtherFieldsValid(j_in.d.d))
       => j_out.ok /\ j_out.val.aggregation = "AVG"
    /\ (/\ j_out # NotRun
        /\ j_in.call = "from_json"
        /\ j_out.ok
        /\ HasColumn(j_in.json_data.d["y"].d)
        /\ NoAggregation(j_in.json_data.d["y"].d))
       => j_out.val.y.aggregation =
              IF j_out.val.chart_type = "SCATTER" THEN "None" ELSE "AVG"

\* C9 witness: from_json has built a line chart from a y with a column and
\* no aggregation
C9_Witness ==
    /\ j_out # NotRun
    /\ j_in.call = "from_json"
    /\ j_out.ok
    /\ j_out.val.chart_type = "LINE"
    /\ j_in.json_data.d["y"] = JObj([column |-> JStr(s_price)])
    /\ j_out.val.y.aggregation = "AVG"

\* C10: the Y field has aggregation COUNTROWS exactly when the raw column is
\* empty or absent and needs_aggregation is true, whatever aggregation was
\* supplied; in every other case a supplied COUNTROWS becomes COUNT; so
\* COUNTROWS never stands with a column, from parse_from_llm or in a config
\* built by from_json.
C10_CountRowsOnlyWithoutColumn ==
    /\ (j_out # NotRun /\ j_in.call = "YAxis.parse_from_llm")
       => /\ (/\ NoColumn(j_in.d.d)
              /\ j_in.needs_aggregation
              /\ OtherFieldsValid(j_in.d.d))
             => j_out.ok /\ j_out.val.aggregation = "COUNTROWS"
          /\ j_out.ok
             => /\ j_out.val.aggregation = "COUNTROWS"
                   <=> (NoColumn(j_in.d.d) /\ j_in.needs_aggregation)
                /\ (/\ ~(NoColumn(j_in.d.d) /\ j_in.needs_aggregation)
                    /\ Get(j_in.d.d, "aggregation") = JStr(s_COUNTROWS))
                   => j_out.val.aggregation = "COUNT"
    /\ (j_out # NotRun /\ j_in.call = "from_json" /\ j_out.ok)
       => (j_out.val.y.aggregation = "COUNTROWS"
           => j_out.val.y.column = JStr(<<>>))

\* C10 witness: a y with no column and a supplied SUM has been given
\* COUNTROWS
C10_Witness ==
    /\ j_out # NotRun
    /\ j_in.call = "YAxis.parse_from_llm"
    /\ j_in.needs_aggregation
    /\ j_in.d = JObj([aggregation |-> JStr(s_SUM)])
    /\ j_out.ok
    /\ j_out.val.aggregation = "COUNTROWS"

(***************************************************************************)
(* The claims about PlotConfig.from_json (SpecSchema).                     *)
(***************************************************************************)
\* from_json has run on a decoded object
FromJsonRan ==
    /\ j_out # NotRun
    /\ j_in.call = "from_json"
    /\ j_in.json_data.t = "obj"

\* the decoded object d with its chart_type set to ct
WithChartType(d, ct) ==
    [k \in DOMAIN d \cup {"chart_type"} |->
        IF k = "chart_type" THEN ct ELSE d[k]]

\* null, the empty text and "none" in the letter cases of the inputs
BarFallbackValues ==
    {JNull, JStr(<<>>), JStr(s_none), JStr(s_None), JStr(s_NONE)}

\* C11 as first stated: for a decoded object whose chart_type is absent,
\* empty or "none" in any letter case, from_json selects BAR and does not
\* fail on the chart_type alone (it gives what it gives for "bar").
C11_AbsentOrNoneIsBar ==
    (/\ FromJsonRan
     /\ \/ "chart_type" \notin DOMAIN j_in.json_data.d
        \/ j_in.json_data.d["chart_type"] \in BarFallbackValues)
    => /\ j_out = PlotConfig_from_json(
                      JObj(WithChartType(j_in.json_data.d, JStr(s_bar))))
       /\ j_out.ok => j_out.val.chart_type = "BAR"

\* C11, amended: for a decoded object that has the key chart_type with a
\* value that is null, empty or "none" in any letter case, from_json selects
\* BAR and gives exactly what it gives for the same object with chart_type
\* "bar", so it never fails on the chart_type alone.
C11_NullEmptyOrNoneIsBar ==
    (/\ FromJsonRan
     /\ "chart_type" \in DOMAIN j_in.json_data.d
     /\ j_in.json_data.d["chart_type"] \in BarFallbackValues)
    => /\ j_out = PlotConfig_from_json(
                      JObj(WithChartType(j_in.json_data.d, JStr(s_bar))))
       /\ j_out.ok => j_out.val.chart_type = "BAR"

\* C11 witness: a config has been built from chart_type "NONE"
C11_Witness ==
    /\ FromJsonRan
    /\ "chart_type" \in DOMAIN j_in.json_data.d
    /\ j_in.json_data.d["chart_type"] = JStr(s_NONE)
    /\ j_out.ok
    /\ j_out.val.chart_type = "BAR"

\* C12: from_json fails when the decoded object lacks the key chart_type or
\* the key y, and it fails on the assertion (before the chart type is
\* coerced, before the pie fix-up and before the axes are parsed), whatever
\* the other values are: no config results.
C12_RequiredKeysAssertedFirst ==
    (/\ FromJsonRan
     /\ ~({"chart_type", "y"} \subseteq DOMAIN j_in.json_data.d))
    => j_out = Err("AssertionError")

\* C12 witness: an object with a chart type the enum refuses and no y has
\* failed
C12_Witness ==
    /\ FromJsonRan
    /\ "y" \notin DOMAIN j_in.json_data.d
    /\ "chart_type" \in DOMAIN j_in.json_data.d
    /\ j_in.json_data.d["chart_type"] = JStr(s_horizontal_bar)
    /\ ~j_out.ok

\* the aggregation of the raw object is one AggregationType takes, or none
AggregationValid(d) ==
    NoAggregation(d) \/ EnumOf(AggregationType, d["aggregation"]).ok

\* from_json has run on a pie chart with no x: absent, null or empty
PieWithoutX ==
    /\ FromJsonRan
    /\ {"chart_type", "y"} \subseteq DOMAIN j_in.json_data.d
    /\ j_in.json_data.d["chart_type"] = JStr(s_pie)
    /\ ~Truthy(Get(j_in.json_data.d, "x"))

\* the config has an x whose column is the y column of the decoded object
XIsCloneOfY ==
    /\ j_out.val.x # JNull
    /\ j_out.val.x.d.column = j_out.val.y.column
    /\ j_out.val.x.d.column = j_in.json_data.d["y"].d["column"]

\* C13 as first stated: for a decoded object with chart_type "pie" and no x
\* (absent, null or empty), the config from_json builds has an x made from
\* the y object, whose column is the y column, and the call leaves the
\* caller's decoded object as it was.
C13_PieXIsCloneOfY ==
    /\ []((PieWithoutX /\ j_out.ok) => XIsCloneOfY)
    /\ [][(j_out = NotRun /\ j_out' # NotRun) => j_in' = j_in]_vars

\* C13, amended: for a decoded object with chart_type "pie", no x (absent,
\* null or empty) and a y object that is not empty, every config from_json
\* builds has an x made from the y object, whose column is the y column;
\* from_json does build one when y has a column, an aggregation the enum
\* takes or none, and fields of their declared types; and the call leaves
\* the caller's decoded object as it was.
C13_PieXIsCloneOfNonEmptyY ==
    /\ []((PieWithoutX /\ Truthy(j_in.json_data.d["y"]))
          => /\ j_out.ok => XIsCloneOfY
             /\ ( /\ j_in.json_data.d["y"].t = "obj"
                  /\ HasColumn(j_in.json_data.d["y"].d)
                  /\ OtherFieldsValid(j_in.json_data.d["y"].d)
                  /\ AggregationValid(j_in.json_data.d["y"].d) )
                => j_out.ok)
    /\ [][(j_out = NotRun /\ j_out' # NotRun) => j_in' = j_in]_vars

\* C13 witness: a pie chart has been built from an object with an empty x
C13_Witness ==
    /\ PieWithoutX
    /\ "x" \in DOMAIN j_in.json_data.d
    /\ j_in.json_data.d["x"] = JObj(Dict([column |-> Absent]))
    /\ j_out.ok
    /\ j_out.val.x.d.column = JStr(s_price)

(***************************************************************************)
(* The claim about the response extractor (Spec).                          *)
(***************************************************************************)
\* the reply opens a fenced payload and never closes it: one fence, at the
\* start, with or without the word json, and one JSON document after it
OpensFenceOnly(content) ==
    /\ Len(content) >= 2
    /\ content[1] = Fence
    /\ \A i \in 2..Len(content) : content[i] # Fence
    /\ json_loads(SubSeq(content, IF content[2] = LangJson THEN 3 ELSE 2,
                         Len(content))).ok

\* C14: a reply that opens a fenced JSON payload and omits the closing fence
\* is still extracted and decoded: parse_json gives the document, and the
\* query that got this reply does not end as Unknown.
C14_SingleFenceFallback ==
    \A c \in callers :
        (pc[c] = "done" /\ OpensFenceOnly(raw_response[c]))
        => /\ parse_json(raw_response[c]).ok
           /\ outcome[c].response_type # "UNKNOWN"

(***************************************************************************)
(* The claim about the operators of Filter (SpecFilter).                   *)
(***************************************************************************)
\* the first operator, from index k on, that occurs in f
RECURSIVE FirstOperatorIn(_, _)
FirstOperatorIn(f, k) ==
    IF Contains(f, supported_operators[k]) \/ k = Len(supported_operators)
    THEN supported_operators[k]
    ELSE FirstOperatorIn(f, k + 1)

\* the leftmost place of op in f
LeftmostPlace(op, f) ==
    CHOOSE i \in 1..Len(f) :
        /\ SubSeq(f, i, i + Len(op) - 1) = op
        /\ \A k \in 1..(i - 1) : SubSeq(f, k, k + Len(op) - 1) # op

\* C15: parse_from_llm tries the operators in the order ==, !=, >=, <=, >, <
\* and splits the text at the leftmost occurrence of the first operator in
\* that order that occurs; so a text whose comparison is >= or <= is never
\* parsed with op > or < and a right-hand side that begins with =.
C15_FirstOperatorLeftmost ==
    (f_out # NotRun /\ f_out.parsed.ok)
    => LET f  == strip_parenthesis(Strip(FilterText(f_in)))
           op == FirstOperatorIn(f, 1)
           i  == LeftmostPlace(op, f)
       IN  /\ f_out.parsed.val.op = op
           /\ f_out.parsed.val.lhs = Strip(SubSeq(f, 1, i - 1))
           /\ f_out.parsed.val.rhs = Strip(SubSeq(f, i + Len(op), Len(f)))
           /\ f_out.parsed.val.op \in {<<">">>, <<"<">>}
              => ~Contains(f, f_out.parsed.val.op \o <<"=">>)

(***************************************************************************)
(* The claims about scatter charts and bin sizes (SpecSchema).             *)
(***************************************************************************)
\* C16: every config from_json builds with chart type scatter has a y with
\* no aggregation, whatever aggregation the decoded object supplied.
C16_ScatterHasNoAggregation ==
    (FromJsonRan /\ j_out.ok /\ j_out.val.chart_type = "SCATTER")
    => j_out.val.y.aggregation = "None"

\* the decoded object has an x object whose bin_size is a number below one
NonPositiveBinSize ==
    /\ FromJsonRan
    /\ "x" \in DOMAIN j_in.json_data.d
    /\ j_in.json_data.d["x"].t = "obj"
    /\ "bin_size" \in DOMAIN j_in.json_data.d["x"].d
    /\ j_in.json_data.d["x"].d["bin_size"].t = "num"
    /\ j_in.json_data.d["x"].d["bin_size"].n <= 0

\* C17: an axis object whose bin_size is zero or negative fails validation:
\* from_json builds no config from it, so no axis with a bin size below one
\* results and a zero bin size is not taken as no binning.
C17_NonPositiveBinSizeFails == NonPositiveBinSize => ~j_out.ok

(***************************************************************************)
(* The claim about the schema of the system prompt (SpecSchema).           *)
(***************************************************************************)
\* C18: every chart_type and every aggregation the system prompt lists is
\* accepted: from_json on an object with a listed chart_type and a y whose
\* aggregation is listed (or left out), and parse_from_llm on a y with a
\* listed aggregation, raise no failure of an unknown enum value.
C18_PromptValuesAccepted ==
    /\ ( /\ FromJsonRan
         /\ {"chart_type", "y"} \subseteq DOMAIN j_in.json_data.d
         /\ j_in.json_data.d["chart_type"] \in
                {JStr(v) : v \in prompt_chart_types}
         /\ j_in.json_data.d["y"].t = "obj"
         /\ \/ NoAggregation(j_in.json_data.d["y"].d)
            \/ j_in.json_data.d["y"].d["aggregation"] \in
                   {JStr(a) : a \in prompt_aggregations} )
       => j_out # Err("ValueError")
    /\ ( /\ j_out # NotRun
         /\ j_in.call = "YAxis.parse_from_llm"
         /\ "aggregation" \in DOMAIN j_in.d.d
         /\ j_in.d.d["aggregation"] \in {JStr(a) : a \in prompt_aggregations} )
       => j_out # Err("ValueError")

(***************************************************************************)
(* The claims about the history under two callers (SpecConcurrent) and     *)
(* after a failed model call (Spec).                                       *)
(***************************************************************************)
\* after the system message, user and assistant messages take turns
Alternates(h) ==
    \A i \in 2..Len(h) :
        h[i].role = IF i % 2 = 0 THEN "user" ELSE "assistant"

\* the queries that have appended their prompt and not yet got a reply
InFlight == {c \in callers : pc[c] \in {"appended", "awaiting"}}

\* the messages take turns, and the last one is a user message exactly when
\* a query is in flight
Balanced ==
    /\ Alternates(history)
    /\ Len(history) % 2 = 0 <=> InFlight # {}

\* C19: a session is not safe for two callers at once; but as long as at
\* most one query is in flight and no model call raises, every step keeps
\* the user and assistant messages taking turns after the system message,
\* each model call being issued over a history that ends with the one
\* unanswered prompt.
C19_OneInFlightAlternates ==
    /\ Balanced
    /\ [][( /\ Balanced
            /\ Cardinality(InFlight) <= 1
            /\ Cardinality(InFlight') <= 1
            /\ \A c \in callers : boundary'[c] = NoExc )
          => /\ Balanced'
             /\ \A c \in callers :
                   (pc[c] = "appended" /\ pc'[c] = "awaiting")
                   => /\ Alternates(sent'[c])
                      /\ sent'[c][Len(sent'[c])] = HumanMessage(prompt[c])]_vars

\* C19 witness: two queries ran at once, the second caller's model call was
\* issued over a history that ends with two user messages, the first of
\* them the unanswered prompt of the first caller
C19_Witness ==
    /\ pc[1] \in {"appended", "awaiting"}
    /\ pc[2] = "awaiting"
    /\ Len(sent[2]) = 3
    /\ sent[2][2].role = "user"
    /\ sent[2][3].role = "user"
    /\ history = sent[2]

\* C20: when the model call of a query raises, the history is what it was
\* before the query started: the prompt of the query is not left in it
\* without a reply.
C20_HistoryRestoredAfterRaise ==
    \A c \in callers :
        (pc[c] = "raised" /\ boundary[c] # NoExc)
        => /\ history = SubSeq(sent[c], 1, Len(sent[c]) - 1)
           /\ history[Len(history)].role # "user"

(***************************************************************************)
(* The claim about the Plot a query returns (SpecPlots).                   *)
(***************************************************************************)
\* C21: every Plot returned by Chat2Plot.query or Chat2Vega.query has a
\* figure exactly when its response type is SUCCESS and no config exactly
\* when its response type is NOT_RELATED or UNKNOWN (so a FAILED_TO_RENDER
\* outcome keeps the parsed config and has no figure); its raw_response is
\* the reply of the model to that query, the one appended to the history;
\* and no exception of the rendering leaves query: what leaves it without a
\* failure of the model call comes from a reply that never reached rendering.
C21_PlotInvariants ==
    \A c \in callers :
        /\ pc[c] = "done"
           => /\ outcome[c] # NoPlot
              /\ outcome[c].figure # "None"
                 <=> outcome[c].response_type = "SUCCESS"
              /\ outcome[c].config = JNull
                 <=> outcome[c].response_type \in {"NOT_RELATED", "UNKNOWN"}
              /\ outcome[c].raw_response = raw_response[c]
              /\ history[Len(sent[c]) + 1] = AIMessage(outcome[c].raw_response)
        /\ (pc[c] = "raised" /\ boundary[c] = NoExc)
           => raw_response[c] = not_related

\* C21 witness: a Chat2Plot query has returned a FAILED_TO_RENDER outcome
\* that keeps the parsed config and has no figure
C21_Witness ==
    \E c \in callers :
        /\ IsChat2Plot
        /\ pc[c] = "done"
        /\ outcome[c].response_type = "FAILED_TO_RENDER"
        /\ outcome[c].config # JNull
        /\ outcome[c].figure = "None"

(***************************************************************************)
(* The claim about the aggregation methods of the renderer (Spec).         *)
(***************************************************************************)
\* C22: every aggregation a built config can hold has a method in
\* groupby_agg, so a query whose reply was assembled into a bar, pie, line
\* or area config with an aggregation never ends in FAILED_TO_RENDER for the
\* kind of its aggregation: the look-up of the method succeeds.
C22_EveryAggregationHasMethod ==
    \A c \in callers :
        (/\ pc[c] = "done"
         /\ outcome[c].config # JNull
         /\ outcome[c].config.chart_type \in {"BAR", "PIE", "LINE", "AREA"}
         /\ is_aggregation(outcome[c].config))
        => groupby_agg(outcome[c].config).ok
====
